---- MODULE Spec2Model ----
(***************************************************************************)
(* Model of the bulk transcription queue of InstaScribe                    *)
(* (curious-liberal/instagram-reels-download).                             *)
(*                                                                         *)
(* The bulk module (src/README.md:38-525) keeps four module-level          *)
(* variables (processingQueue, currentIndex, isProcessing,                 *)
(* completedTranscripts) and advances the queue through the async          *)
(* function processNextInQueue, which suspends at its awaited network      *)
(* calls and re-arms itself with setTimeout.  Every run of that function   *)
(* between two suspension points is one atomic action here, as the         *)
(* browser's event loop runs it.                                           *)
(*                                                                         *)
(* Text is modelled as a sequence of tokens: "sp" is a whitespace          *)
(* character, "ig" the host fragment 'instagram.com', "q" the character    *)
(* '?', anything else an ordinary character.  A textarea value is the      *)
(* sequence of its lines (value.split('\n')).                              *)
(***************************************************************************)
EXTENDS Integers, Sequences, FiniteSets, TLC

\* ------------------------------------------------------------------ bounds
\* Largest number of lines the user types into the bulk textarea.
MaxLines == 2
\* Largest number of times handleProcessBulk builds a queue in one run.
MaxBatches == 2

\* ------------------------------------------------------------ text helpers
RECURSIVE trimStart(_)
\* String.prototype.trim, leading part: drop whitespace at the front.
trimStart(s) ==
  IF s # <<>> /\ Head(s) = "sp" THEN trimStart(Tail(s)) ELSE s

RECURSIVE trimEnd(_)
\* String.prototype.trim, trailing part: drop whitespace at the back.
trimEnd(s) ==
  IF s # <<>> /\ s[Len(s)] = "sp" THEN trimEnd(SubSeq(s, 1, Len(s) - 1)) ELSE s

\* String.prototype.trim
trim(s) == trimEnd(trimStart(s))

\* s.includes('instagram.com')
includesHost(s) == \E i \in 1..Len(s) : s[i] = "ig"

RECURSIVE beforeQuery(_)
\* s.split('?')[0]: the part of s before its first '?'.
beforeQuery(s) ==
  IF s = <<>> \/ Head(s) = "q" THEN <<>> ELSE <<Head(s)>> \o beforeQuery(Tail(s))

\* flux.js cleanInstagramUrl
cleanInstagramUrl(url) == IF url = <<>> THEN url ELSE beforeQuery(url)

\* cleanLine without the cut at the first '?'.
cleanLineUncut(line) == trim(line)

\* One line of the bulk textarea as the 'input' listener rewrites it.
cleanLine(line) ==
  LET trimmed == trim(line) IN IF trimmed # <<>> THEN beforeQuery(trimmed) ELSE trimmed

\* The lines the user may type: a padded reel URL with a tracking query, and
\* a padded line of another site.
LineTracked == <<"sp", "ig", "b", "q", "t", "sp">>
LineOther == <<"sp", "x", "q", "t">>
Lines == {LineTracked, LineOther}

\* Every textarea content of at most MaxLines lines.
Texts == UNION {[1..n -> Lines] : n \in 1..MaxLines}

\* The empty textarea: ''.split('\n') is [''].
EmptyText == << <<>> >>

\* The 'input' listener of the bulk textarea (lines 78-88): the value it
\* leaves in the textarea, every line trimmed and cut at its first '?'.
bulkUrlsInputListener(text) == [k \in 1..Len(text) |-> cleanLine(text[k])]

\* The values bulkUrlsInput.value can have when processBulkButton is clicked:
\* what the listener left of the text typed last, or '' (initially and after
\* handleClear).
InputValues == {bulkUrlsInputListener(text) : text \in Texts} \cup {EmptyText}

\* More lines the user may type: a second reel URL whose query follows a
\* blank, a line of another site that names the host in its query only, and a
\* line of blanks.
LineSecond == <<"ig", "a", "sp", "q", "t">>
LineQueryHost == <<"x", "q", "ig">>
LineBlank == <<"sp">>
StartLines == {LineTracked, LineSecond, LineQueryHost, LineBlank}

\* Largest number of lines of a text made of StartLines.
MaxStartLines == 2

\* The values the listener leaves of the texts made of StartLines.
StartValues ==
  {bulkUrlsInputListener(text) :
     text \in UNION {[1..n -> StartLines] : n \in 1..MaxStartLines}}

\* --------------------------------------------------------------- API keys
\* A key is described by what validateApiKey looks at.
NoKey == [startsSk |-> FALSE, length |-> 0, charsOk |-> FALSE]
GoodKey == [startsSk |-> TRUE, length |-> 51, charsOk |-> TRUE]
ShortKey == [startsSk |-> TRUE, length |-> 10, charsOk |-> TRUE]
TypedKeys == {NoKey, GoodKey, ShortKey}

\* tabs.js validateApiKey
validateApiKey(key) ==
  /\ key.startsSk
  /\ ~(key.length < 20 \/ key.length > 100)
  /\ key.charsOk

\* The members of window.Settings.
SettingsApi == {"init", "getApiKey", "hasApiKey", "openSettings", "validateApiKey"}

VARIABLES
  heap,                  \* the job arrays still reachable, by allocation number
  queueRef,              \* which array processingQueue refers to (0: a fresh [])
  currentIndex,
  isProcessing,
  completedTranscripts,
  chains,                \* the processNextInQueue activations, one per batch
  nBatches,              \* queues built by handleProcessBulk so far
  storedKey,             \* localStorage['openai_api_key'] (NoKey: absent)
  bulkQueueHtml,         \* bulkQueue.innerHTML, as rendered rows
  bulkResponse,          \* bulkResponse.innerHTML, as <<type, message>>
  bulkQueueSectionDisplay,
  bulkDownloadSectionDisplay,
  buttonDisabled,        \* processBulkButton.disabled
  settingsModalDisplay,
  downloads,             \* the files handed to the browser (a.click()) since the
                         \* latest export command was issued
  exportTask,            \* the export command that is suspended, if any
  transcribeRuns,         \* the click handler of transcribeButton: where it is
                         \* suspended and the key transcribeVideo read
  transcribeSpinnerDisplay,
  transcribeResponse     \* transcribeResponse.innerHTML, as <<type, message>>

vars == <<heap, queueRef, currentIndex, isProcessing, completedTranscripts,
          chains, nBatches, storedKey, bulkQueueHtml,
          bulkResponse, bulkQueueSectionDisplay, bulkDownloadSectionDisplay,
          buttonDisabled, settingsModalDisplay, downloads, exportTask,
          transcribeRuns, transcribeSpinnerDisplay, transcribeResponse>>

queueVars == <<heap, queueRef, currentIndex, isProcessing, completedTranscripts>>
uiVars == <<bulkQueueHtml, bulkResponse, bulkQueueSectionDisplay,
            bulkDownloadSectionDisplay, buttonDisabled>>
exportVars == <<downloads, exportTask>>
singleVars == <<transcribeRuns, transcribeSpinnerDisplay, transcribeResponse>>

\* null
Null == <<>>
NullError == "null"

\* An export command suspended at an await: none, downloadAllZip awaiting
\* generateAsync with the entries of its archive, or downloadAllIndividual
\* awaiting its timer before entry i of completedTranscripts.
NoTask == [kind |-> "none", zip |-> <<>>, i |-> 0]
ZipTask(zip) == [kind |-> "zip", zip |-> zip, i |-> 0]
IndividualTask(i) == [kind |-> "individual", zip |-> <<>>, i |-> i]

\* The array the module variable processingQueue refers to.
queueOf(hp, ref) == IF ref = 0 THEN <<>> ELSE hp[ref]
processingQueue == queueOf(heap, queueRef)

\* An activation of processNextInQueue: where it is suspended (pc) and the
\* element its local variable item refers to (element idx of array gen) while
\* it awaits a network call.  "none": not created yet; "timer": its setTimeout
\* is pending; "done": it returned without re-arming.
NoChain == [pc |-> "none", gen |-> 0, idx |-> 0]
TimerChain == [pc |-> "timer", gen |-> 0, idx |-> 0]
DoneChain == [pc |-> "done", gen |-> 0, idx |-> 0]
Awaiting == {"media", "video", "whisper"}

\* An element no variable refers to any more.
Collected == [id |-> 0, url |-> <<>>, status |-> "collected", result |-> <<>>,
              error |-> "null"]

\* Some activation still holds element k of array g.
held(ch, g, k) ==
  \E c \in DOMAIN ch : ch[c].pc \in Awaiting /\ ch[c].gen = g /\ ch[c].idx = k

\* Garbage collection: an array other than the one processingQueue refers to
\* is reachable only through the items the activations hold.
collect(hp, ref, ch) ==
  [g \in DOMAIN hp |->
     IF g = ref THEN hp[g]
     ELSE IF \E k \in 1..Len(hp[g]) : held(ch, g, k)
          THEN [k \in 1..Len(hp[g]) |-> IF held(ch, g, k) THEN hp[g][k] ELSE Collected]
          ELSE <<>>]

\* The click handler of transcribeButton: not running, or suspended at the
\* request pc with the key transcribeVideo has read.
NoRun == [pc |-> "idle", apiKey |-> NoKey]

\* Runs of the single-item flow that can be under way together.
MaxRuns == 2
Runs == 1..MaxRuns

\* tabs.js getApiKey / hasApiKey
getApiKey == storedKey
\* hasApiKey testing the key against undefined, which getApiKey never returns.
hasApiKeyNotUndefined == TRUE
hasApiKey == getApiKey # NoKey /\ validateApiKey(getApiKey)

\* showMessage(type, message)
showMessage(type, message) == <<[type |-> type, message |-> message]>>
NoMessage == <<>>

\* A message text without interpolated numbers, and the batch summary.
plain(text) == [text |-> text, args |-> <<>>]
summary(done, total) ==
  [text |-> "Completed ${done} of ${total} transcriptions", args |-> <<done, total>>]

\* renderQueue with the row at the cursor always drawn as the one in progress.
renderQueueMarkingCursor(q) ==
  [k \in 1..Len(q) |->
     [number |-> k,
      url |-> q[k].url,
      statusClass |-> IF k = currentIndex + 1 THEN "processing" ELSE q[k].status,
      statusText |-> IF k = currentIndex + 1 THEN <<"Processing...">>
                     ELSE IF q[k].status = "failed" THEN <<"Failed: ", q[k].error>>
                     ELSE IF q[k].status = "completed" THEN <<"Completed">>
                     ELSE IF q[k].status = "processing" THEN <<"Processing...">>
                     ELSE <<"Pending">>,
      actions |-> q[k].status = "completed"]]

\* renderQueue: the rows written to bulkQueue.innerHTML.
renderQueue(q) ==
  [k \in 1..Len(q) |->
     [number |-> k,
      url |-> q[k].url,
      statusClass |-> q[k].status,
      statusText |-> IF q[k].status = "failed" THEN <<"Failed: ", q[k].error>>
                     ELSE IF q[k].status = "completed" THEN <<"Completed">>
                     ELSE IF q[k].status = "processing" THEN <<"Processing...">>
                     ELSE <<"Pending">>,
      actions |-> q[k].status = "completed"]]

Init ==
  /\ heap = [g \in 1..MaxBatches |-> <<>>]
  /\ queueRef = 0
  /\ currentIndex = 0
  /\ isProcessing = FALSE
  /\ completedTranscripts = <<>>
  /\ chains = [c \in 1..MaxBatches |-> NoChain]
  /\ nBatches = 0
  /\ storedKey \in {NoKey, GoodKey}
  /\ bulkQueueHtml = <<>>
  /\ bulkResponse = NoMessage
  /\ bulkQueueSectionDisplay = "none"
  /\ bulkDownloadSectionDisplay = "none"
  /\ buttonDisabled = FALSE
  /\ settingsModalDisplay = "none"
  /\ downloads = <<>>
  /\ exportTask = NoTask
  /\ transcribeRuns = [r \in Runs |-> NoRun]
  /\ transcribeSpinnerDisplay = "none"
  /\ transcribeResponse = NoMessage

\* validUrls without the test for the host fragment.
validUrlsUnfiltered(text) ==
  LET trimmed == [k \in 1..Len(text) |-> trim(text[k])]
      keep(url) == url # <<>>
  IN SelectSeq(trimmed, keep)

\* The urls handleProcessBulk extracts from the textarea.
validUrls(text) ==
  LET trimmed == [k \in 1..Len(text) |-> trim(text[k])]
      keep(url) == url # <<>> /\ includesHost(url)
  IN SelectSeq(trimmed, keep)

\* newQueue numbering the jobs from 1.
newQueueFromOne(urls) ==
  [k \in 1..Len(urls) |->
     [id |-> k, url |-> urls[k], status |-> "pending",
      result |-> Null, error |-> NullError]]

\* The queue handleProcessBulk builds from the urls.
newQueue(urls) ==
  [k \in 1..Len(urls) |->
     [id |-> k - 1, url |-> urls[k], status |-> "pending",
      result |-> Null, error |-> NullError]]

\* processNextInQueue from its entry to its first await, when an item is left:
\* activation c marks the item at index ci of the array ref as processing,
\* renders, and sends the request to the media API.
startItem(c, hp, ref, ci) ==
  /\ chains' = [chains EXCEPT ![c] = [pc |-> "media", gen |-> ref, idx |-> ci + 1]]
  /\ heap' = collect([hp EXCEPT ![ref][ci + 1].status = "processing"], ref, chains')
  /\ bulkQueueHtml' = renderQueue(heap'[ref])

\* handleProcessBulk testing the credential before the urls.
handleProcessBulkKeyFirst(value) ==
  /\ ~buttonDisabled
  /\ UNCHANGED <<exportVars, singleVars>>
  /\ LET urls == validUrls(value) IN
       IF ~hasApiKey THEN
         /\ bulkResponse' = showMessage("error", plain("Please configure your OpenAI API key in Settings first"))
         /\ settingsModalDisplay' = IF "openSettings" \in SettingsApi THEN "flex"
                                    ELSE settingsModalDisplay
         /\ UNCHANGED <<queueVars, chains, nBatches, storedKey,
                        bulkQueueHtml, bulkQueueSectionDisplay,
                        bulkDownloadSectionDisplay, buttonDisabled>>
       ELSE IF Len(urls) = 0 THEN
         /\ bulkResponse' = showMessage("error", plain("Please enter at least one valid Instagram URL"))
         /\ UNCHANGED <<queueVars, chains, nBatches, storedKey,
                        bulkQueueHtml, bulkQueueSectionDisplay,
                        bulkDownloadSectionDisplay, buttonDisabled,
                        settingsModalDisplay>>
       ELSE
         /\ nBatches < MaxBatches
         /\ nBatches' = nBatches + 1
         /\ queueRef' = nBatches'
         /\ currentIndex' = 0
         /\ completedTranscripts' = <<>>
         /\ bulkQueueSectionDisplay' = "block"
         /\ bulkDownloadSectionDisplay' = "none"
         /\ isProcessing' = TRUE
         /\ buttonDisabled' = TRUE
         /\ startItem(nBatches', [heap EXCEPT ![nBatches'] = newQueue(urls)],
                      nBatches', 0)
         /\ UNCHANGED <<storedKey, bulkResponse, settingsModalDisplay>>

\* Click on processBulkButton (a disabled button dispatches no click).
handleProcessBulk(value) ==
  /\ ~buttonDisabled
  /\ UNCHANGED <<exportVars, singleVars>>
  /\ LET urls == validUrls(value) IN
       IF Len(urls) = 0 THEN
         /\ bulkResponse' = showMessage("error", plain("Please enter at least one valid Instagram URL"))
         /\ UNCHANGED <<queueVars, chains, nBatches, storedKey,
                        bulkQueueHtml, bulkQueueSectionDisplay,
                        bulkDownloadSectionDisplay, buttonDisabled,
                        settingsModalDisplay>>
       ELSE IF ~hasApiKey THEN
         /\ bulkResponse' = showMessage("error", plain("Please configure your OpenAI API key in Settings first"))
         /\ settingsModalDisplay' = IF "openSettings" \in SettingsApi THEN "flex"
                                    ELSE settingsModalDisplay
         /\ UNCHANGED <<queueVars, chains, nBatches, storedKey,
                        bulkQueueHtml, bulkQueueSectionDisplay,
                        bulkDownloadSectionDisplay, buttonDisabled>>
       ELSE
         /\ nBatches < MaxBatches
         /\ nBatches' = nBatches + 1
         /\ queueRef' = nBatches'
         /\ currentIndex' = 0
         /\ completedTranscripts' = <<>>
         /\ bulkQueueSectionDisplay' = "block"
         /\ bulkDownloadSectionDisplay' = "none"
         /\ isProcessing' = TRUE
         /\ buttonDisabled' = TRUE
         /\ startItem(nBatches', [heap EXCEPT ![nBatches'] = newQueue(urls)],
                      nBatches', 0)
         /\ UNCHANGED <<storedKey, bulkResponse, settingsModalDisplay>>

\* handleClear without the reset of currentIndex.
handleClearKeepsIndex ==
  /\ queueRef' = 0
  /\ UNCHANGED <<exportVars, singleVars>>
  /\ completedTranscripts' = <<>>
  /\ isProcessing' = FALSE
  /\ bulkQueueSectionDisplay' = "none"
  /\ bulkDownloadSectionDisplay' = "none"
  /\ bulkResponse' = NoMessage
  /\ buttonDisabled' = FALSE
  /\ heap' = collect(heap, 0, chains)
  /\ UNCHANGED <<currentIndex, chains, nBatches, storedKey, bulkQueueHtml,
                 settingsModalDisplay>>

\* Click on clearBulkButton.
handleClear ==
  /\ queueRef' = 0
  /\ UNCHANGED <<exportVars, singleVars>>
  /\ currentIndex' = 0
  /\ completedTranscripts' = <<>>
  /\ isProcessing' = FALSE
  /\ bulkQueueSectionDisplay' = "none"
  /\ bulkDownloadSectionDisplay' = "none"
  /\ bulkResponse' = NoMessage
  /\ buttonDisabled' = FALSE
  /\ heap' = collect(heap, 0, chains)
  /\ UNCHANGED <<chains, nBatches, storedKey, bulkQueueHtml, settingsModalDisplay>>

\* ------------------------------------------------------------ SRT output
DigitChar == <<"0", "1", "2", "3", "4", "5", "6", "7", "8", "9">>

RECURSIVE digitsOf(_)
\* String(num) for a non-negative integer.
digitsOf(num) ==
  IF num < 10 THEN <<DigitChar[num + 1]>>
  ELSE digitsOf(num \div 10) \o <<DigitChar[(num % 10) + 1]>>

RECURSIVE zeros(_)
zeros(n) == IF n <= 0 THEN <<>> ELSE <<"0">> \o zeros(n - 1)

\* whisper.js pad: String(num).padStart(length, '0')
pad(num, length) == zeros(length - Len(digitsOf(num))) \o digitsOf(num)

\* ---- the floating-point arithmetic of formatSRTTime
\* A time is held as the whole number t of milliseconds that its decimal
\* notation in the response denotes; the argument seconds of formatSRTTime is
\* the IEEE-754 double nearest to t / 1000.

RECURSIVE floorLog2(_)
\* The exponent of the positive integer x: the k with 2^k <= x < 2^(k+1).
floorLog2(x) == IF x < 2 THEN 0 ELSE 1 + floorLog2(x \div 2)

RECURSIVE pow2(_)
pow2(k) == IF k <= 0 THEN 1 ELSE 2 * pow2(k - 1)

RECURSIVE leadShift(_, _)
\* For 0 < r < 1000: the least z >= shift with r * 2^z >= 1000 * 2^shift, so
\* that leadShift(r, 0) is minus the exponent of the double r / 1000.
leadShift(r, shift) == IF r >= 1000 THEN shift ELSE leadShift(2 * r, shift + 1)

RECURSIVE doubledMod(_, _)
\* (r * 2^n) mod 1000, eight doublings at a time.
doubledMod(r, n) ==
  IF n >= 8 THEN doubledMod((256 * r) % 1000, n - 8) ELSE (pow2(n) * r) % 1000

\* Math.floor((seconds % 1) * 1000), line 860.  With t = 1000 q + r, the
\* double seconds has 52 - exponent fraction bits, so seconds % 1 (exact in
\* doubles) is r / 1000 rounded to that many bits,
\*   seconds % 1 = r / 1000 + d / (1000 * 2^n),
\* and the product with 1000 is r + d / 2^n before it is rounded to a double.
\* It rounds to a double below r, whose floor is r - 1, when d < 0 and
\* |d| / 2^n exceeds half the spacing of the doubles just below r.
flooredMillis(t) ==
  LET q == t \div 1000
      r == t % 1000
      exponent == IF q >= 1 THEN floorLog2(q) ELSE 0 - leadShift(r, 0)
      n == 52 - exponent
      rem == doubledMod(r, n)
      d == IF rem > 500 THEN 1000 - rem ELSE 0 - rem
      below == IF pow2(floorLog2(r)) = r THEN floorLog2(r) - 1 ELSE floorLog2(r)
      sh == below - exponent - 1
  IN IF r = 0 THEN 0
     ELSE IF d >= 0 THEN r
     ELSE IF sh < 0 \/ 0 - d > pow2(sh) THEN r - 1
     ELSE r

\* whisper.js formatSRTTime.  For the times used here the quotients of lines
\* 857-859 are the integer quotients: the rounding error of seconds is far
\* smaller than the distance of seconds from the next whole second.
formatSRTTime(t) ==
  LET hours == t \div 3600000
      minutes == (t % 3600000) \div 60000
      secs == (t % 60000) \div 1000
      ms == flooredMillis(t)
  IN pad(hours, 2) \o <<":">> \o pad(minutes, 2) \o <<":">> \o pad(secs, 2)
       \o <<",">> \o pad(ms, 3)

RECURSIVE srtFromUntrimmed(_, _)
\* srtFrom without the trim of the segment text.
srtFromUntrimmed(segments, index) ==
  IF index >= Len(segments) THEN <<>>
  ELSE LET segment == segments[index + 1] IN
       digitsOf(index + 1) \o <<"\n">>
         \o formatSRTTime(segment.start) \o <<" --> ">>
         \o formatSRTTime(segment.end) \o <<"\n">>
         \o segment.text \o <<"\n", "\n">>
         \o srtFromUntrimmed(segments, index + 1)

RECURSIVE srtFrom(_, _)
\* The forEach of generateSRT, from segment number index (0-based) on.
srtFrom(segments, index) ==
  IF index >= Len(segments) THEN <<>>
  ELSE LET segment == segments[index + 1] IN
       digitsOf(index + 1) \o <<"\n">>
         \o formatSRTTime(segment.start) \o <<" --> ">>
         \o formatSRTTime(segment.end) \o <<"\n">>
         \o trim(segment.text) \o <<"\n", "\n">>
         \o srtFrom(segments, index + 1)

\* whisper.js generateSRT
generateSRT(segments) == IF Len(segments) = 0 THEN <<>> ELSE srtFrom(segments, 0)

\* ------------------------------------------------- answers of the services
\* What the media API (api.instasave.website) may answer: a non-2xx status,
\* a body without a download url, a usable url.
MediaOutcomes == {"notOk", "noUrl", "url"}
\* What fetching the video may give.
VideoOutcomes == {"reject", "notOk", "blob"}

\* Bodies of a 200 answer of the transcription service.
ResultSpeech ==
  [text |-> "hi", segments |-> <<[start |-> 0, end |-> 1500, text |-> <<"sp", "h", "i", "sp">>]>>]
ResultSilent == [text |-> "", segments |-> <<>>]
WhisperResults == {ResultSpeech, ResultSilent}

\* Transcripts for the subtitle formatter: up to MaxSegments segments of
\* SegmentMillis each, the first starting at most MaxOffset milliseconds after
\* one of TimeMarks, with padded and unpadded texts.
MaxSegments == 2
MaxOffset == 3
SegmentMillis == 1500
TimeMarks == {0, 999, 59999, 3599999}
SrtTimes == {mark + offset : mark \in TimeMarks, offset \in 0..MaxOffset}
SegmentTexts == {<<"sp", "h", "sp", "i", "sp">>, <<"h", "i">>}
SrtResults ==
  {[text |-> "hi",
    segments |-> [i \in 1..n |-> [start |-> t + (i - 1) * SegmentMillis,
                                  end |-> t + i * SegmentMillis,
                                  text |-> txt]]] :
     n \in 1..MaxSegments, t \in SrtTimes, txt \in SegmentTexts}
    \cup {ResultSilent}

\* Statuses of a rejected transcription request, and what its body holds.
ErrorStatuses == {400, 401, 413, 429, 500, 502, 503}
ErrorBodies == {"unparsable", "noMessage", "message"}
\* The rejections the queue is run against.
QueueErrors == {<<401, "message">>, <<500, "unparsable">>}

\* The message of the TypeError a rejected fetch carries.
FetchRejected == "Failed to fetch"

\* handleApiErrorMessage without the case 503.
handleApiErrorMessage500Only(status, body) ==
  LET errorMessage == IF body = "message" THEN "<error.message of the service>"
                      ELSE "Transcription failed"
  IN CASE status = 401 -> "Invalid API key. Please check your settings."
       [] status = 413 -> "Audio file is too large. Please use a shorter video."
       [] status = 429 -> "Rate limit exceeded. Please try again in a moment."
       [] status = 500 -> "OpenAI service error. Please try again later."
       [] OTHER -> errorMessage

\* whisper.js handleApiError: the message of the Error it throws.
handleApiErrorMessage(status, body) ==
  LET errorMessage == IF body = "message" THEN "<error.message of the service>"
                      ELSE "Transcription failed"
  IN CASE status = 401 -> "Invalid API key. Please check your settings."
       [] status = 413 -> "Audio file is too large. Please use a shorter video."
       [] status = 429 -> "Rate limit exceeded. Please try again in a moment."
       [] status \in {500, 503} -> "OpenAI service error. Please try again later."
       [] OTHER -> errorMessage

\* whisper.js handleApiError: what it leaves in localStorage.
handleApiErrorKey(status, key) ==
  IF status = 401 /\ "clearApiKey" \in SettingsApi THEN NoKey ELSE key

\* ------------------------------------------------- processNextInQueue
\* finishItem reporting the batch at once when no job is left, without the
\* one-second timer.
finishItemIdleAtOnce(c, hp) ==
  LET last == currentIndex + 1 >= Len(queueOf(hp, queueRef)) IN
  /\ chains' = [chains EXCEPT ![c] = IF last THEN DoneChain ELSE TimerChain]
  /\ heap' = collect(hp, queueRef, chains')
  /\ bulkQueueHtml' = renderQueue(queueOf(heap', queueRef))
  /\ currentIndex' = currentIndex + 1
  /\ isProcessing' = IF last THEN FALSE ELSE isProcessing
  /\ buttonDisabled' = IF last THEN FALSE ELSE buttonDisabled
  /\ bulkResponse' =
       IF last THEN showMessage("success",
                      summary(Len(completedTranscripts'), Len(queueOf(hp, queueRef))))
       ELSE bulkResponse
  /\ UNCHANGED <<queueRef, nBatches, bulkQueueSectionDisplay,
                 bulkDownloadSectionDisplay, settingsModalDisplay>>

\* Lines 226-232: render, advance the index, arm the one-second timer.
finishItem(c, hp) ==
  /\ chains' = [chains EXCEPT ![c] = TimerChain]
  /\ heap' = collect(hp, queueRef, chains')
  /\ bulkQueueHtml' = renderQueue(queueOf(heap', queueRef))
  /\ currentIndex' = currentIndex + 1
  /\ UNCHANGED <<queueRef, isProcessing, nBatches, bulkResponse,
                 bulkQueueSectionDisplay, bulkDownloadSectionDisplay,
                 buttonDisabled, settingsModalDisplay>>

\* The catch block: the item the activation holds becomes failed.
failItem(c, message) ==
  /\ UNCHANGED completedTranscripts
  /\ finishItem(c, [heap EXCEPT ![chains[c].gen][chains[c].idx].status = "failed",
                                ![chains[c].gen][chains[c].idx].error = message])

\* completeItem naming every result after the first job.
completeItemNamedFirst(c, result) ==
  LET item == heap[chains[c].gen][chains[c].idx]
      stored == [text |-> result.text,
                 srt |-> generateSRT(result.segments),
                 url |-> item.url,
                 filename |-> [prefix |-> "transcript_", n |-> 1]]
  IN /\ completedTranscripts' = Append(completedTranscripts, stored)
     /\ finishItem(c, [heap EXCEPT ![chains[c].gen][chains[c].idx].status = "completed",
                                   ![chains[c].gen][chains[c].idx].result = <<stored>>])

\* Lines 206-218: the item the activation holds becomes completed and its
\* result is pushed onto the array completedTranscripts refers to now.
completeItem(c, result) ==
  LET item == heap[chains[c].gen][chains[c].idx]
      stored == [text |-> result.text,
                 srt |-> generateSRT(result.segments),
                 url |-> item.url,
                 filename |-> [prefix |-> "transcript_", n |-> currentIndex + 1]]
  IN /\ completedTranscripts' = Append(completedTranscripts, stored)
     /\ finishItem(c, [heap EXCEPT ![chains[c].gen][chains[c].idx].status = "completed",
                                   ![chains[c].gen][chains[c].idx].result = <<stored>>])

\* The media API answers (lines 158-196).
mediaReturns(c, outcome) ==
  /\ chains[c].pc = "media"
  /\ UNCHANGED <<exportVars, singleVars>>
  /\ CASE outcome = "notOk" ->
            failItem(c, "Failed to fetch video information") /\ UNCHANGED storedKey
       [] outcome = "noUrl" ->
            failItem(c, "Could not get video download URL") /\ UNCHANGED storedKey
       [] outcome = "url" ->
            /\ chains' = [chains EXCEPT ![c].pc = "video"]
            /\ UNCHANGED <<queueVars, nBatches, storedKey, uiVars,
                           settingsModalDisplay>>

\* videoReturns sending the transcription request whatever the key is.
videoReturnsAnyKey(c, outcome) ==
  /\ chains[c].pc = "video"
  /\ UNCHANGED <<exportVars, singleVars>>
  /\ CASE outcome = "reject" -> failItem(c, FetchRejected) /\ UNCHANGED storedKey
       [] outcome = "notOk" -> failItem(c, "Failed to fetch video") /\ UNCHANGED storedKey
       [] outcome = "blob" ->
            /\ chains' = [chains EXCEPT ![c].pc = "whisper"]
            /\ UNCHANGED <<queueVars, nBatches, storedKey, uiVars,
                           settingsModalDisplay>>

\* The video fetch answers (lines 196-204 and transcribeAudio up to its fetch).
videoReturns(c, outcome) ==
  /\ chains[c].pc = "video"
  /\ UNCHANGED <<exportVars, singleVars>>
  /\ CASE outcome = "reject" -> failItem(c, FetchRejected) /\ UNCHANGED storedKey
       [] outcome = "notOk" -> failItem(c, "Failed to fetch video") /\ UNCHANGED storedKey
       [] outcome = "blob" ->
            IF ~validateApiKey(getApiKey)
            THEN failItem(c, "Invalid API key") /\ UNCHANGED storedKey
            ELSE /\ chains' = [chains EXCEPT ![c].pc = "whisper"]
                 /\ UNCHANGED <<queueVars, nBatches, storedKey, uiVars,
                                settingsModalDisplay>>

\* The transcription request is answered with 200 and a transcript.
whisperReturns(c, result) ==
  /\ chains[c].pc = "whisper"
  /\ UNCHANGED <<exportVars, singleVars>>
  /\ completeItem(c, result)
  /\ UNCHANGED storedKey

\* The transcription request is answered with an error status.
whisperRejects(c, status, body) ==
  /\ chains[c].pc = "whisper"
  /\ UNCHANGED <<exportVars, singleVars>>
  /\ storedKey' = handleApiErrorKey(status, storedKey)
  /\ failItem(c, handleApiErrorMessage(status, body))

\* The one-second timer fires: processNextInQueue from its entry.
processNextInQueue(c) ==
  /\ chains[c].pc = "timer"
  /\ UNCHANGED <<exportVars, singleVars>>
  /\ IF currentIndex >= Len(processingQueue) THEN
       /\ isProcessing' = FALSE
       /\ buttonDisabled' = FALSE
       /\ bulkResponse' = showMessage("success",
              summary(Len(completedTranscripts), Len(processingQueue)))
       /\ bulkDownloadSectionDisplay' =
            IF Len(completedTranscripts) > 0 THEN "block" ELSE bulkDownloadSectionDisplay
       /\ chains' = [chains EXCEPT ![c] = DoneChain]
       /\ UNCHANGED <<heap, queueRef, currentIndex, completedTranscripts, nBatches,
                      storedKey, bulkQueueHtml, bulkQueueSectionDisplay,
                      settingsModalDisplay>>
     ELSE
       /\ startItem(c, heap, queueRef, currentIndex)
       /\ UNCHANGED <<queueRef, currentIndex, isProcessing, completedTranscripts,
                      nBatches, storedKey, bulkResponse,
                      bulkQueueSectionDisplay, bulkDownloadSectionDisplay,
                      buttonDisabled, settingsModalDisplay>>

\* ------------------------------------------------------------ settings
\* Click on saveApiKey with the typed key (tabs.js saveApiKey).
saveApiKey(key) ==
  /\ key # NoKey
  /\ validateApiKey(key)
  /\ storedKey' = key
  /\ settingsModalDisplay' = "none"
  /\ UNCHANGED <<queueVars, chains, nBatches, uiVars, exportVars, singleVars>>

\* Click on clearApiKey (tabs.js clearApiKey).
clearApiKey ==
  /\ storedKey' = NoKey
  /\ UNCHANGED <<queueVars, chains, nBatches, uiVars, settingsModalDisplay, exportVars, singleVars>>

\* Click on closeSettings (tabs.js closeSettingsModal).
closeSettingsModal ==
  /\ settingsModalDisplay' = "none"
  /\ UNCHANGED <<queueVars, chains, nBatches, storedKey, uiVars, exportVars, singleVars>>

\* ------------------------------------------------------------- exports
\* `${filename}`: the name stored with a result, as text.
nameOf(filename) == <<filename.prefix>> \o digitsOf(filename.n)

\* A file by its name and its content, both token texts.
file(name, data) == [name |-> name, data |-> data]

\* The file of lines 315-320 and 404-410, and the one of lines 329-334 and
\* 413-420, for the stored result t.
txtFile(t) == file(nameOf(t.filename) \o <<".txt">>, <<t.text>>)
srtFile(t) == file(nameOf(t.filename) \o <<".srt">>, t.srt)

\* JSZip zip.file(name, data): the entry of that name is replaced where it
\* stands, a new name is added behind the others.
zipFile(zip, f) ==
  IF \E k \in 1..Len(zip) : zip[k].name = f.name
  THEN [k \in 1..Len(zip) |-> IF zip[k].name = f.name THEN f ELSE zip[k]]
  ELSE Append(zip, f)

RECURSIVE zipAllWithoutSrt(_, _)
\* zipAll adding the text file of each transcript only.
zipAllWithoutSrt(zip, transcripts) ==
  IF transcripts = <<>> THEN zip
  ELSE zipAllWithoutSrt(zipFile(zip, txtFile(Head(transcripts))), Tail(transcripts))

RECURSIVE zipAll(_, _)
\* Lines 441-444: the two files of every transcript are added to zip.
zipAll(zip, transcripts) ==
  IF transcripts = <<>> THEN zip
  ELSE zipAll(zipFile(zipFile(zip, txtFile(Head(transcripts))), srtFile(Head(transcripts))),
              Tail(transcripts))

RECURSIVE summaryFrom(_, _)
\* Lines 447-449: the summary text from entry i + 1 of transcripts on.
summaryFrom(transcripts, i) ==
  IF i >= Len(transcripts) THEN <<>>
  ELSE LET t == transcripts[i + 1] IN
       (IF i > 0 THEN <<"\n", "\n">> ELSE <<>>)
         \o digitsOf(i + 1) \o <<". ">> \o t.url \o <<"\n", "   Filename: ">>
         \o nameOf(t.filename)
         \o summaryFrom(transcripts, i + 1)

\* Lines 438-450: the archive downloadAllZip builds.
buildZip(transcripts) ==
  zipFile(zipAll(<<>>, transcripts), file(<<"_summary.txt">>, summaryFrom(transcripts, 0)))

\* The message of line 430.
downloaded(n) == [text |-> "Downloaded ${n} transcript sets!", args |-> <<n>>]

\* Click on the TXT button of row index, or BulkTranscribe.downloadTxt(index).
downloadTxt(index) ==
  /\ exportTask = NoTask
  /\ UNCHANGED singleVars
  /\ downloads' =
       IF index < Len(processingQueue) /\ processingQueue[index + 1].result # Null
       THEN <<txtFile(processingQueue[index + 1].result[1])>>
       ELSE <<>>
  /\ UNCHANGED <<queueVars, chains, nBatches, storedKey, uiVars,
                 settingsModalDisplay, exportTask>>

\* Click on the SRT button of row index, or BulkTranscribe.downloadSrt(index).
downloadSrt(index) ==
  /\ exportTask = NoTask
  /\ UNCHANGED singleVars
  /\ downloads' =
       IF /\ index < Len(processingQueue)
          /\ processingQueue[index + 1].result # Null
          /\ processingQueue[index + 1].result[1].srt # <<>>
       THEN <<srtFile(processingQueue[index + 1].result[1])>>
       ELSE <<>>
  /\ UNCHANGED <<queueVars, chains, nBatches, storedKey, uiVars,
                 settingsModalDisplay, exportTask>>

\* Lines 403-421: the files one turn of the loop hands to the browser.
individualFiles(t) == <<txtFile(t)>> \o (IF t.srt # <<>> THEN <<srtFile(t)>> ELSE <<>>)

\* downloadAllIndividual from its entry to its first await.
downloadAllIndividual ==
  /\ exportTask = NoTask
  /\ UNCHANGED singleVars
  /\ IF Len(completedTranscripts) = 0 THEN
       /\ downloads' = <<>>
       /\ UNCHANGED <<exportTask, bulkResponse>>
     ELSE
       /\ bulkResponse' = showMessage("info", plain("Downloading individual TXT + SRT files..."))
       /\ downloads' = individualFiles(completedTranscripts[1])
       /\ exportTask' = IndividualTask(1)
  /\ UNCHANGED <<queueVars, chains, nBatches, storedKey, bulkQueueHtml,
                 bulkQueueSectionDisplay, bulkDownloadSectionDisplay,
                 buttonDisabled, settingsModalDisplay>>

\* The 200 ms timer of downloadAllIndividual fires: the loop tests its
\* condition on the array completedTranscripts refers to now.
individualResumes ==
  /\ exportTask.kind = "individual"
  /\ UNCHANGED singleVars
  /\ IF exportTask.i < Len(completedTranscripts) THEN
       /\ downloads' = downloads \o individualFiles(completedTranscripts[exportTask.i + 1])
       /\ exportTask' = IndividualTask(exportTask.i + 1)
       /\ UNCHANGED bulkResponse
     ELSE
       /\ bulkResponse' = showMessage("success", downloaded(Len(completedTranscripts)))
       /\ exportTask' = NoTask
       /\ UNCHANGED downloads
  /\ UNCHANGED <<queueVars, chains, nBatches, storedKey, bulkQueueHtml,
                 bulkQueueSectionDisplay, bulkDownloadSectionDisplay,
                 buttonDisabled, settingsModalDisplay>>

\* zipFailed emptying completedTranscripts as well.
zipFailedDroppingResults ==
  /\ bulkResponse' = showMessage("error", plain("Failed to generate ZIP file"))
  /\ exportTask' = NoTask
  /\ completedTranscripts' = <<>>
  /\ UNCHANGED <<heap, queueRef, currentIndex, isProcessing, chains, nBatches,
                 storedKey, bulkQueueHtml, bulkQueueSectionDisplay,
                 bulkDownloadSectionDisplay, buttonDisabled, settingsModalDisplay>>

\* The catch block of downloadAllZip (lines 465-468).
zipFailed ==
  /\ bulkResponse' = showMessage("error", plain("Failed to generate ZIP file"))
  /\ exportTask' = NoTask
  /\ UNCHANGED <<queueVars, chains, nBatches, storedKey, bulkQueueHtml,
                 bulkQueueSectionDisplay, bulkDownloadSectionDisplay,
                 buttonDisabled, settingsModalDisplay>>

\* What building the archive can do: JSZip builds it, or throws.
ZipBuilds == {"built", "throws"}
\* What generateAsync can do: resolve with the blob, or reject.
ZipOutcomes == {"blob", "reject"}

\* downloadAllZip from its entry to its await.
downloadAllZip(builds) ==
  /\ exportTask = NoTask
  /\ UNCHANGED singleVars
  /\ downloads' = <<>>
  /\ IF Len(completedTranscripts) = 0 THEN
       UNCHANGED <<queueVars, chains, nBatches, storedKey, uiVars,
                   settingsModalDisplay, exportTask>>
     ELSE IF builds = "throws" THEN zipFailed
     ELSE
       /\ bulkResponse' = showMessage("info", plain("Generating ZIP file..."))
       /\ exportTask' = ZipTask(buildZip(completedTranscripts))
       /\ UNCHANGED <<queueVars, chains, nBatches, storedKey, bulkQueueHtml,
                      bulkQueueSectionDisplay, bulkDownloadSectionDisplay,
                      buttonDisabled, settingsModalDisplay>>

\* generateAsync settles: downloadAllZip from its await to its end.
zipGenerated(outcome) ==
  /\ exportTask.kind = "zip"
  /\ UNCHANGED singleVars
  /\ IF outcome = "reject" THEN zipFailed /\ UNCHANGED downloads
     ELSE
       /\ downloads' = Append(downloads,
                         file(<<"instagram_transcripts_", "now", ".zip">>, exportTask.zip))
       /\ bulkResponse' = showMessage("success", plain("ZIP file downloaded successfully!"))
       /\ exportTask' = NoTask
       /\ UNCHANGED <<queueVars, chains, nBatches, storedKey, bulkQueueHtml,
                      bulkQueueSectionDisplay, bulkDownloadSectionDisplay,
                      buttonDisabled, settingsModalDisplay>>

\* ---------------------------------------------- single-item transcription
\* whisper.js showProgress, showMessage and clearMessage on transcribeResponse.
showProgress(message) == <<[type |-> "progress", message |-> plain(message)]>>
showMessageTranscribe(type, message) == <<[type |-> type, message |-> plain(message)]>>

\* The texts of transcribeReelUrl: blank, another site, a reel URL.
TranscribeInputs == {LineBlank, LineOther, LineTracked}

\* What the requests of the single-item flow can do.
SingleMediaOutcomes == {"reject", "notOk", "noUrl", "url"}
SingleVideoOutcomes == {"reject", "notOk", "blob"}
AudioOutcomes == {"audio", "error"}

\* The catch blocks of the click handler (lines 1152-1156) and of
\* transcribeVideo (lines 910-914): hide the spinner, show the error.
transcribeFailed(r, message) ==
  /\ transcribeSpinnerDisplay' = "none"
  /\ transcribeResponse' = showMessageTranscribe("error", message)
  /\ transcribeRuns' = [transcribeRuns EXCEPT ![r] = NoRun]

\* The button stays enabled while a run is under way, so a second click starts
\* a second run beside the first; a new run takes the first free slot.
idleRuns == {r \in Runs : transcribeRuns[r] = NoRun}
lowestIdle == IF idleRuns = {} THEN 0
              ELSE CHOOSE r \in idleRuns : \A q \in idleRuns : r <= q

\* Click on transcribeButton, up to the request to the media API.
transcribeClick(r, value) ==
  LET url == trim(value) IN
  /\ r = lowestIdle
  /\ IF url = <<>> THEN
       /\ transcribeResponse' =
            showMessageTranscribe("error", "Please paste an Instagram video URL")
       /\ UNCHANGED <<transcribeRuns, transcribeSpinnerDisplay>>
     ELSE IF ~includesHost(url) THEN
       /\ transcribeResponse' =
            showMessageTranscribe("error", "Please enter a valid Instagram URL")
       /\ UNCHANGED <<transcribeRuns, transcribeSpinnerDisplay>>
     ELSE
       /\ transcribeSpinnerDisplay' = "block"
       /\ transcribeResponse' = showProgress("Fetching video metadata...")
       /\ transcribeRuns' = [transcribeRuns EXCEPT ![r] = [pc |-> "media", apiKey |-> NoKey]]
  /\ UNCHANGED <<queueVars, chains, nBatches, storedKey, uiVars,
                 settingsModalDisplay, exportVars>>

\* transcribeVideo from its entry to its first await (lines 873-892); when no
\* credential is stored it returns, and so does the click handler.
transcribeVideo(r) ==
  IF ~hasApiKey THEN
    /\ transcribeResponse' =
         showMessageTranscribe("error", "Please configure your OpenAI API key in Settings")
    /\ settingsModalDisplay' = IF "openSettings" \in SettingsApi THEN "flex"
                               ELSE settingsModalDisplay
    /\ transcribeRuns' = [transcribeRuns EXCEPT ![r] = NoRun]
    /\ UNCHANGED transcribeSpinnerDisplay
  ELSE
    /\ transcribeSpinnerDisplay' = "block"
    /\ transcribeResponse' = showProgress("Fetching video...")
    /\ transcribeRuns' = [transcribeRuns EXCEPT ![r] = [pc |-> "video", apiKey |-> getApiKey]]
    /\ UNCHANGED settingsModalDisplay

\* The media API answers the click handler (lines 1133-1150).
transcribeMediaReturns(r, outcome) ==
  /\ transcribeRuns[r].pc = "media"
  /\ CASE outcome = "reject" ->
            transcribeFailed(r, FetchRejected) /\ UNCHANGED settingsModalDisplay
       [] outcome = "notOk" ->
            /\ transcribeFailed(r, "Failed to fetch video information. The Instagram URL may be invalid or the video may be private.")
            /\ UNCHANGED settingsModalDisplay
       [] outcome = "noUrl" ->
            /\ transcribeFailed(r, "Could not get video download URL from API response")
            /\ UNCHANGED settingsModalDisplay
       [] outcome = "url" -> transcribeVideo(r)
  /\ UNCHANGED <<queueVars, chains, nBatches, storedKey, uiVars, exportVars>>

\* fetchVideoAsBlob answers (lines 918-930), up to extractAudioFromVideo.
transcribeVideoReturns(r, outcome) ==
  /\ transcribeRuns[r].pc = "video"
  /\ CASE outcome = "reject" ->
            transcribeFailed(r, "Failed to download video: Failed to fetch")
       [] outcome = "notOk" ->
            transcribeFailed(r, "Failed to download video: Failed to fetch video")
       [] outcome = "blob" ->
            /\ transcribeResponse' = showProgress("Extracting audio... 0%")
            /\ transcribeRuns' = [transcribeRuns EXCEPT ![r].pc = "audio"]
            /\ UNCHANGED transcribeSpinnerDisplay
  /\ UNCHANGED <<queueVars, chains, nBatches, storedKey, uiVars,
                 settingsModalDisplay, exportVars>>

\* extractAudioFromVideo settles, up to the request of transcribeAudio
\* (lines 896-902 and 763-786).
audioExtracted(r, outcome) ==
  /\ transcribeRuns[r].pc = "audio"
  /\ IF outcome = "error" THEN transcribeFailed(r, "<message of the extraction error>")
     ELSE IF ~validateApiKey(transcribeRuns[r].apiKey) THEN transcribeFailed(r, "Invalid API key")
     ELSE
       /\ transcribeResponse' = showProgress("Transcribing audio...")
       /\ transcribeRuns' = [transcribeRuns EXCEPT ![r].pc = "whisper"]
       /\ UNCHANGED transcribeSpinnerDisplay
  /\ UNCHANGED <<queueVars, chains, nBatches, storedKey, uiVars,
                 settingsModalDisplay, exportVars>>

\* The transcription request of the single-item flow is answered with a
\* transcript (lines 904-908).
transcribeWhisperReturns(r) ==
  /\ transcribeRuns[r].pc = "whisper"
  /\ transcribeSpinnerDisplay' = "none"
  /\ transcribeResponse' = showMessageTranscribe("success", "Transcription complete!")
  /\ transcribeRuns' = [transcribeRuns EXCEPT ![r] = NoRun]
  /\ UNCHANGED <<queueVars, chains, nBatches, storedKey, uiVars,
                 settingsModalDisplay, exportVars>>

\* The transcription request of the single-item flow is rejected.
transcribeWhisperRejects(r, status, body) ==
  /\ transcribeRuns[r].pc = "whisper"
  /\ storedKey' = handleApiErrorKey(status, storedKey)
  /\ transcribeFailed(r, handleApiErrorMessage(status, body))
  /\ UNCHANGED <<queueVars, chains, nBatches, uiVars,
                 settingsModalDisplay, exportVars>>

Chains == 1..MaxBatches

Next ==
  \/ \E value \in InputValues : handleProcessBulk(value)
  \/ handleClear
  \/ \E c \in Chains, outcome \in MediaOutcomes : mediaReturns(c, outcome)
  \/ \E c \in Chains, outcome \in VideoOutcomes : videoReturns(c, outcome)
  \/ \E c \in Chains, result \in WhisperResults : whisperReturns(c, result)
  \/ \E c \in Chains, e \in QueueErrors : whisperRejects(c, e[1], e[2])
  \/ \E c \in Chains : processNextInQueue(c)
  \/ \E key \in TypedKeys : saveApiKey(key)
  \/ clearApiKey
  \/ closeSettingsModal

Spec == Init /\ [][Next]_vars

\* The runs in which clearBulkButton is never clicked.
SpecNoClear == Init /\ [][Next /\ ~handleClear]_vars

\* The clicks on processBulkButton and clearBulkButton while no service has
\* answered yet, on the texts made of StartLines.
NextStart ==
  \/ \E value \in StartValues : handleProcessBulk(value)
  \/ handleClear

SpecStart == Init /\ [][NextStart]_vars

\* One reel at a time is transcribed without failure, the transcription
\* service answering with the transcripts of SrtResults.
NextSrt ==
  \/ handleProcessBulk(<<cleanLine(LineTracked)>>)
  \/ \E c \in Chains : mediaReturns(c, "url")
  \/ \E c \in Chains : videoReturns(c, "blob")
  \/ \E c \in Chains, result \in SrtResults : whisperReturns(c, result)
  \/ \E c \in Chains : processNextInQueue(c)

SpecSrt == Init /\ [][NextSrt]_vars

\* The export commands beside a batch of two reels, one export command at a
\* time: a command is issued when the one before it has come to its end.
ExportValue == <<cleanLine(LineTracked), cleanLine(LineSecond)>>
ExportIndices == 0..Len(ExportValue)

NextExport ==
  \/ handleProcessBulk(ExportValue)
  \/ handleClear
  \/ \E c \in Chains, outcome \in {"url", "notOk"} : mediaReturns(c, outcome)
  \/ \E c \in Chains : videoReturns(c, "blob")
  \/ \E c \in Chains, result \in WhisperResults : whisperReturns(c, result)
  \/ \E c \in Chains : processNextInQueue(c)
  \/ \E index \in ExportIndices : downloadTxt(index)
  \/ \E index \in ExportIndices : downloadSrt(index)
  \/ downloadAllIndividual
  \/ individualResumes
  \/ \E builds \in ZipBuilds : downloadAllZip(builds)
  \/ \E outcome \in ZipOutcomes : zipGenerated(outcome)

SpecExport == Init /\ [][NextExport]_vars

\* Batches of two reels whose media requests succeed, the transcription
\* service answering with a transcript or rejecting with any of ErrorStatuses
\* and ErrorBodies.
NextErrors ==
  \/ handleProcessBulk(ExportValue)
  \/ \E c \in Chains : mediaReturns(c, "url")
  \/ \E c \in Chains : videoReturns(c, "blob")
  \/ \E c \in Chains : whisperReturns(c, ResultSpeech)
  \/ \E c \in Chains, status \in ErrorStatuses, body \in ErrorBodies :
       whisperRejects(c, status, body)
  \/ \E c \in Chains : processNextInQueue(c)

SpecErrors == Init /\ [][NextErrors]_vars

\* A call of renderQueue on its own: bulkQueue.innerHTML is assigned the rows
\* of processingQueue and nothing else is written.
renderQueueCall ==
  /\ bulkQueueHtml' = renderQueue(processingQueue)
  /\ UNCHANGED <<queueVars, chains, nBatches, storedKey, bulkResponse,
                 bulkQueueSectionDisplay, bulkDownloadSectionDisplay,
                 buttonDisabled, settingsModalDisplay, exportVars, singleVars>>

\* The batch flow with renderQueue also called between its steps.
NextRender == Next \/ renderQueueCall

SpecRender == Init /\ [][NextRender]_vars

\* The single-item transcribe flow, runs side by side, beside the settings.
NextSingle ==
  \/ \E r \in Runs, value \in TranscribeInputs : transcribeClick(r, value)
  \/ \E r \in Runs, outcome \in SingleMediaOutcomes : transcribeMediaReturns(r, outcome)
  \/ \E r \in Runs, outcome \in SingleVideoOutcomes : transcribeVideoReturns(r, outcome)
  \/ \E r \in Runs, outcome \in AudioOutcomes : audioExtracted(r, outcome)
  \/ \E r \in Runs : transcribeWhisperReturns(r)
  \/ \E r \in Runs, status \in ErrorStatuses, body \in ErrorBodies :
       transcribeWhisperRejects(r, status, body)
  \/ \E key \in TypedKeys : saveApiKey(key)
  \/ clearApiKey
  \/ closeSettingsModal

SpecSingle == Init /\ [][NextSingle]_vars

\* =================================================================== claims
\* The jobs of the current batch, by position.
Jobs == 1..Len(processingQueue)
Terminal == {"completed", "failed"}

\* An activation is suspended at a network call / no activation is left.
Outstanding == {c \in Chains : chains[c].pc \in Awaiting}
Quiescent == \A c \in Chains : chains[c].pc \in {"none", "done"}

\* A step in which activation c resumes from a network call and finishes its
\* item (lines 206-232), and one in which it starts an item (lines 152-164).
Finishes(c) == chains[c].pc \in Awaiting /\ chains'[c].pc = "timer"
Starts(c) == chains[c].pc \notin Awaiting /\ chains'[c].pc = "media"

\* C1: in every reachable state at most one job of the current batch has
\* status Processing.
C1_AtMostOneProcessing ==
  Cardinality({k \in Jobs : processingQueue[k].status = "processing"}) <= 1

\* C2: once clear() has emptied the queue while a call is in flight, the
\* completion of that call leaves the job list empty, the cursor 0,
\* completedResults empty and isRunning false.
C2_StaleCompletionChangesNothing ==
  [][(processingQueue = <<>> /\ \E c \in Chains : Finishes(c))
       => /\ processingQueue' = <<>>
          /\ currentIndex' = 0
          /\ completedTranscripts' = <<>>
          /\ isProcessing' = FALSE]_vars

\* C3: between clear() and the next startBatch no step of an activation
\* re-renders the queue, shows a message or reveals the export section.
C3_NothingEmittedAfterClear ==
  [][(processingQueue = <<>> /\ processingQueue' = <<>> /\ chains' # chains)
       => /\ bulkQueueHtml' = bulkQueueHtml
          /\ bulkResponse' = bulkResponse
          /\ bulkDownloadSectionDisplay' = bulkDownloadSectionDisplay]_vars

\* C4: every entry of completedResults is the result of a job of the current
\* batch.
C4_ResultsBelongToCurrentBatch ==
  \A i \in 1..Len(completedTranscripts) :
    \E k \in Jobs : processingQueue[k].result = <<completedTranscripts[i]>>

\* The status changes a job may make in one step.
StatusStep(old, new) ==
  \/ old = new
  \/ old = "pending" /\ new = "processing"
  \/ old = "processing" /\ new \in Terminal

\* C5: a job's status only moves Pending -> Processing -> Completed or Failed,
\* a job is started only while Pending and finished only while Processing.
C5_JobLifecycle ==
  [][/\ \A g \in DOMAIN heap : \A k \in 1..Len(heap[g]) :
          (k <= Len(heap'[g]) /\ heap'[g][k].status # "collected")
            => StatusStep(heap[g][k].status, heap'[g][k].status)
     /\ \A c \in Chains :
          (Starts(c) /\ chains'[c].idx <= Len(heap[chains'[c].gen]))
            => heap[chains'[c].gen][chains'[c].idx].status = "pending"
     /\ \A c \in Chains :
          Finishes(c) => heap[chains[c].gen][chains[c].idx].status = "processing"]_vars

\* C6: when a batch has run to its end, each job is Completed with a result
\* and no failure, or Failed with a failure and no result.
C6_EveryJobSettledByItsOwnCalls ==
  (processingQueue # <<>> /\ Quiescent)
    => \A k \in Jobs :
         \/ /\ processingQueue[k].status = "completed"
            /\ processingQueue[k].result # Null
            /\ processingQueue[k].error = NullError
         \/ /\ processingQueue[k].status = "failed"
            /\ processingQueue[k].result = Null
            /\ processingQueue[k].error # NullError

RECURSIVE resultsOf(_)
\* The results of the Completed jobs of q, in id order.
resultsOf(q) ==
  IF q = <<>> THEN <<>>
  ELSE (IF Head(q).status = "completed" THEN Head(q).result ELSE <<>>)
         \o resultsOf(Tail(q))

\* C7: completedResults is the sequence of the results of the current batch's
\* Completed jobs in increasing id order.
C7_CompletedResultsInIdOrder ==
  completedTranscripts = resultsOf(processingQueue)

\* C8: a job is Processing only when every job before it is Completed or
\* Failed.
C8_StartedInInputOrder ==
  \A k \in Jobs :
    processingQueue[k].status = "processing"
      => \A j \in 1..(k - 1) : processingQueue[j].status \in Terminal

\* C9: at most one external call of the queue processor is outstanding.
C9_AtMostOneCallOutstanding == Cardinality(Outstanding) <= 1

\* C10: a batch that is neither cleared nor replaced ends Idle with the cursor
\* at len(jobs) and every job Completed or Failed; stated for the state in
\* which every call has returned and every timer has fired.
C10_BatchRunsToTheEnd ==
  (processingQueue # <<>> /\ Quiescent)
    => /\ isProcessing = FALSE
       /\ currentIndex = Len(processingQueue)
       /\ \A k \in Jobs : processingQueue[k].status \in Terminal

\* The step in which activation c finds no job left (lines 139-150): the batch
\* is marked idle and the summary is shown.
Summarises(c) == chains[c].pc = "timer" /\ chains'[c].pc = "done"

\* The number of jobs of q whose status is Completed.
completedCount(q) == Cardinality({k \in 1..Len(q) : q[k].status = "completed"})

\* C11: every batch summary reports as completedCount the number of Completed
\* jobs of the batch and as totalCount the number of its jobs, so that
\* completedCount <= totalCount.
C11_SummaryCountsTheBatch ==
  [][\A c \in Chains :
       Summarises(c) =>
         LET shown == bulkResponse'[1].message.args IN
           /\ shown[1] = completedCount(processingQueue)
           /\ shown[2] = Len(processingQueue)
           /\ shown[1] <= shown[2]]_vars

\* C12: the summary of a batch is shown at most once (the batch is still
\* running when it is shown) and only when each of its jobs is Completed or
\* Failed.
C12_SummaryOncePerFinishedBatch ==
  [][\A c \in Chains :
       Summarises(c) =>
         /\ \A k \in Jobs : processingQueue[k].status \in Terminal
         /\ processingQueue # <<>> => isProcessing]_vars

\* The failure reason of a request the transcription service answered with 401.
InvalidCredential == "Invalid API key. Please check your settings."

\* C13: when the transcription service answers the request of a job of the
\* current batch with 401, the job ends Failed with the invalid-credential
\* reason and no credential is stored afterwards.
C13_Http401ClearsTheCredential ==
  [][\A c \in Chains :
       (/\ chains[c].pc = "whisper"
        /\ Finishes(c)
        /\ chains[c].gen = queueRef
        /\ processingQueue'[chains[c].idx].error = InvalidCredential)
       => /\ processingQueue'[chains[c].idx].status = "failed"
          /\ ~hasApiKey']_vars

\* C14: once a job of the batch has failed with the invalid-credential
\* reason, no later job of the batch ends Completed: each one that ends, ends
\* Failed.
C14_JobsAfter401Fail ==
  \A j \in Jobs :
    processingQueue[j].error = InvalidCredential
      => \A k \in Jobs :
           (k > j /\ processingQueue[k].status \in Terminal)
             => processingQueue[k].status = "failed"

\* C18: the cursor stays within 0..len(jobs), and while the batch is neither
\* cleared nor replaced it grows by exactly one for each job that reaches
\* Completed or Failed, and not otherwise.
C18_CursorCountsTheFinishedJobs ==
  /\ [](0 <= currentIndex /\ currentIndex <= Len(processingQueue))
  /\ [][(queueRef' = queueRef /\ queueRef # 0)
          => currentIndex' = currentIndex + Cardinality(
               {k \in Jobs : /\ processingQueue[k].status \notin Terminal
                             /\ processingQueue'[k].status \in Terminal})]_vars

\* A line is non-blank after trimming and contains the host fragment.
Survives(line) == trim(line) # <<>> /\ includesHost(trim(line))

RECURSIVE surviving(_)
\* The trimmed lines of text that survive, in the order of the text.
surviving(text) ==
  IF text = <<>> THEN <<>>
  ELSE (IF Survives(Head(text)) THEN <<trim(Head(text))>> ELSE <<>>)
         \o surviving(Tail(text))

\* A valid credential is stored.
HasCredential == storedKey # NoKey /\ validateApiKey(storedKey)

\* C15: with a valid credential, startBatch on a text with a surviving line
\* creates one job per surviving line, in the order of the lines, with ids
\* 0..N-1, each Pending without result or failure; the same call starts the
\* first of them.
C15_OneJobPerSurvivingLine ==
  [][\A value \in StartValues :
       (handleProcessBulk(value) /\ HasCredential /\ surviving(value) # <<>>)
       => LET urls == surviving(value) IN
            /\ Len(processingQueue') = Len(urls)
            /\ \A k \in 1..Len(urls) :
                 /\ processingQueue'[k].id = k - 1
                 /\ processingQueue'[k].url = urls[k]
                 /\ processingQueue'[k].result = Null
                 /\ processingQueue'[k].error = NullError
                 /\ processingQueue'[k].status =
                      IF k = 1 THEN "processing" ELSE "pending"]_vars

\* A batch of the two reel URLs, typed in this order among other lines.
C15_TwoJobsInLineOrder ==
  /\ Len(processingQueue) = 2
  /\ processingQueue[1].url = <<"ig", "a">>
  /\ processingQueue[2].url = <<"ig", "b">>
  /\ processingQueue[1].id = 0
  /\ processingQueue[2].id = 1
  /\ processingQueue[2].status = "pending"

\* The two conditions startBatch reports.
NoValidUrls ==
  showMessage("error", plain("Please enter at least one valid Instagram URL"))
CredentialMissing ==
  showMessage("error", plain("Please configure your OpenAI API key in Settings first"))

\* C16: startBatch on a text without a surviving line reports the
\* no-valid-URLs condition, creates no job, makes no call and leaves jobs,
\* cursor, completedResults and isRunning as they are.
C16_NoValidUrlsChangesNothing ==
  [][\A value \in InputValues :
       (handleProcessBulk(value) /\ surviving(value) = <<>>)
       => /\ bulkResponse' = NoValidUrls
          /\ UNCHANGED <<heap, queueRef, currentIndex, completedTranscripts,
                         isProcessing, chains>>]_vars

\* The condition is reported while the jobs of a finished batch are kept.
C16_ReportedBesideAFinishedBatch ==
  /\ bulkResponse = NoValidUrls
  /\ processingQueue # <<>>
  /\ ~isProcessing
  /\ \A k \in Jobs : processingQueue[k].status \in Terminal

\* C17: startBatch on a text with a surviving line while no valid credential
\* is stored reports the credential-missing condition, opens the settings
\* prompt, creates no job, makes no call and leaves jobs, cursor,
\* completedResults and isRunning as they are.
C17_NoCredentialCreatesNothing ==
  [][\A value \in InputValues :
       (handleProcessBulk(value) /\ surviving(value) # <<>> /\ ~HasCredential)
       => /\ bulkResponse' = CredentialMissing
          /\ settingsModalDisplay' = "flex"
          /\ UNCHANGED <<heap, queueRef, currentIndex, completedTranscripts,
                         isProcessing, chains>>]_vars

\* The condition is reported and the prompt is open while the jobs of a
\* finished batch are kept.
C17_PromptedBesideAFinishedBatch ==
  /\ bulkResponse = CredentialMissing
  /\ settingsModalDisplay = "flex"
  /\ ~HasCredential
  /\ processingQueue # <<>>
  /\ ~isProcessing
  /\ \A k \in Jobs : processingQueue[k].status \in Terminal

\* C19 as stated: while a batch exists, isRunning is true exactly when the
\* cursor is before the end of the jobs.
C19_RunningIffJobsRemain ==
  queueRef # 0 => (isProcessing <=> currentIndex < Len(processingQueue))

\* C19 amended: while a batch exists and the cursor is before the end of the
\* jobs, isRunning is true; the step in which the cursor advances arms the
\* inter-job delay, after the last job as after any other, and leaves
\* isRunning and the shown message alone; the batch becomes Idle in a later
\* step, the one in which a delay has elapsed and the cursor is found at or
\* past the end, and that step shows the summary.
C19_IdleWhenTheLastDelayElapsed ==
  /\ []((queueRef # 0 /\ currentIndex < Len(processingQueue)) => isProcessing)
  /\ [][/\ currentIndex' = currentIndex + 1
          => /\ \E c \in Chains : chains[c].pc \in Awaiting /\ chains'[c].pc = "timer"
             /\ isProcessing' = isProcessing
             /\ bulkResponse' = bulkResponse
        /\ (isProcessing /\ ~isProcessing' /\ queueRef # 0 /\ queueRef' = queueRef)
          => /\ \E c \in Chains : Summarises(c)
             /\ currentIndex' = currentIndex
             /\ currentIndex >= Len(processingQueue)
             /\ bulkResponse' = showMessage("success",
                  summary(Len(completedTranscripts), Len(processingQueue)))]_vars

\* The last job of a batch has finished and the batch is still running, its
\* delay pending.
C19_RunningDuringTheLastDelay ==
  /\ queueRef # 0
  /\ currentIndex = Len(processingQueue)
  /\ isProcessing
  /\ \E c \in Chains : chains[c].pc = "timer"
  /\ \A k \in Jobs : processingQueue[k].status \in Terminal

\* C20: immediately after clear() the job list is empty, the cursor is 0,
\* completedResults is empty, isRunning is false and the start control is
\* enabled, whatever the state before.
C20_ClearResetsTheBatch ==
  [][handleClear
       => /\ processingQueue' = <<>>
          /\ currentIndex' = 0
          /\ completedTranscripts' = <<>>
          /\ isProcessing' = FALSE
          /\ buttonDisabled' = FALSE]_vars

\* The batch was cleared while a call of its job was outstanding, and nothing
\* has happened to the queue since.
C20_ClearedWhileProcessing ==
  /\ nBatches > 0
  /\ Outstanding # {}
  /\ processingQueue = <<>>
  /\ currentIndex = 0
  /\ completedTranscripts = <<>>
  /\ ~isProcessing
  /\ ~buttonDisabled

\* C21: a job of the current batch has a result exactly when it is Completed
\* and a failure reason exactly when it is Failed.
C21_ResultIffCompleted ==
  \A k \in Jobs :
    /\ processingQueue[k].result # Null <=> processingQueue[k].status = "completed"
    /\ processingQueue[k].error # NullError <=> processingQueue[k].status = "failed"

\* C22: the export base name of every Completed job of the current batch is
\* "transcript_" followed by its id + 1.
C22_BaseNameIsIdPlusOne ==
  \A k \in Jobs :
    processingQueue[k].status = "completed"
      => processingQueue[k].result[1].filename =
           [prefix |-> "transcript_", n |-> processingQueue[k].id + 1]

\* C28: no render shows a job Processing unless it shows the job before it
\* Completed or Failed, so that the render of a job's final state precedes
\* every render showing the next job Processing.
C28_FinalRenderBeforeNextProcessing ==
  \A k \in 2..Len(bulkQueueHtml) :
    bulkQueueHtml[k].statusClass = "processing"
      => bulkQueueHtml[k - 1].statusClass \in Terminal

RECURSIVE flatten(_)
\* The concatenation of the sequences of seqs.
flatten(seqs) == IF seqs = <<>> THEN <<>> ELSE Head(seqs) \o flatten(Tail(seqs))

\* The block of segment number i: the line i, the line of the two timestamps,
\* the line of the text and an empty line.
SubtitleBlock(i, startStamp, endStamp, text) ==
  digitsOf(i) \o <<"\n">> \o startStamp \o <<" --> ">> \o endStamp \o <<"\n">>
    \o text \o <<"\n", "\n">>

\* The subtitle text C29 states.
StatedSubtitles(segments) ==
  flatten([i \in 1..Len(segments) |->
             SubtitleBlock(i, formatSRTTime(segments[i].start),
                           formatSRTTime(segments[i].end), trim(segments[i].text))])

\* C29: the subtitle text stored for a transcript is empty when it has no
\* segment and otherwise the blocks of its segments in order, numbered from
\* 1, each with its two timestamps and its trimmed text.
C29_SubtitlesAreTheBlocksInOrder ==
  [][\A c \in Chains, result \in SrtResults :
       whisperReturns(c, result)
       => /\ completedTranscripts' # <<>>
          /\ completedTranscripts'[Len(completedTranscripts')].srt =
               StatedSubtitles(result.segments)
          /\ (result.segments = <<>>
                => completedTranscripts'[Len(completedTranscripts')].srt = <<>>)]_vars

\* A transcript of two segments with padded texts has been formatted.
C29_TwoPaddedSegmentsFormatted ==
  \E i \in 1..Len(completedTranscripts) :
    completedTranscripts[i].srt =
      StatedSubtitles(<<[start |-> 999, end |-> 2499, text |-> <<"sp", "h", "sp", "i", "sp">>],
                        [start |-> 2499, end |-> 3999, text |-> <<"sp", "h", "sp", "i", "sp">>]>>)

\* The timestamp C30 states for t milliseconds.
StatedTimestamp(t) ==
  pad(t \div 3600000, 2) \o <<":">> \o pad((t \div 60000) % 60, 2) \o <<":">>
    \o pad((t \div 1000) % 60, 2) \o <<",">> \o pad(t % 1000, 3)

\* C30: every timestamp of a stored subtitle text renders its time of t
\* milliseconds as HH:MM:SS,mmm with the fields t div 3600000,
\* (t div 60000) mod 60, (t div 1000) mod 60 and t mod 1000.
C30_TimestampFieldsOfMillis ==
  [][\A c \in Chains, result \in SrtResults :
       whisperReturns(c, result)
       => completedTranscripts'[Len(completedTranscripts')].srt =
            flatten([i \in 1..Len(result.segments) |->
                       SubtitleBlock(i, StatedTimestamp(result.segments[i].start),
                                     StatedTimestamp(result.segments[i].end),
                                     trim(result.segments[i].text))])]_vars

\* A text without the character '?'.
NoQuery(url) == \A i \in 1..Len(url) : url[i] # "q"

\* The normalization: the text up to its first '?', all of it when it has none.
CutAtQuery(line) ==
  IF NoQuery(line) THEN line
  ELSE SubSeq(line, 1, (CHOOSE i \in 1..Len(line) :
                          line[i] = "q" /\ NoQuery(SubSeq(line, 1, i - 1))) - 1)

\* The texts typed into the bulk textarea before the button is clicked.
TypedTexts == UNION {[1..n -> StartLines] : n \in 1..MaxStartLines}

\* C23: no job's url contains '?' and normalizing it again changes nothing;
\* the urls of the jobs startBatch builds from a typed text are its lines cut
\* at their first '?', those that are then accepted, and cutting a cut line
\* again gives the same line.
C23_SourceUrlsAreCutAtTheQuery ==
  /\ [](\A k \in Jobs : /\ NoQuery(processingQueue[k].url)
                        /\ CutAtQuery(processingQueue[k].url) = processingQueue[k].url)
  /\ [][\A text \in TypedTexts :
          LET cut == [k \in 1..Len(text) |-> CutAtQuery(text[k])] IN
          (handleProcessBulk(bulkUrlsInputListener(text)) /\ HasCredential
             /\ surviving(cut) # <<>>)
          => /\ [k \in 1..Len(processingQueue') |-> processingQueue'[k].url] =
                  surviving(cut)
             /\ \A k \in 1..Len(text) : CutAtQuery(cut[k]) = cut[k]]_vars

\* A batch of one job made from the line whose query follows a blank.
C23_JobFromALineWithAQuery ==
  /\ Len(processingQueue) = 1
  /\ processingQueue[1].url = <<"ig", "a">>
  /\ processingQueue[1].status = "processing"
  /\ bulkQueueHtml # <<>>

\* The text export and the subtitle export of the stored result t, as stated:
\* the text named {exportBaseName}.txt, the subtitle text named
\* {exportBaseName}.srt.
StatedTxt(t) ==
  [name |-> <<t.filename.prefix>> \o digitsOf(t.filename.n) \o <<".txt">>,
   data |-> <<t.text>>]
StatedSrt(t) ==
  [name |-> <<t.filename.prefix>> \o digitsOf(t.filename.n) \o <<".srt">>,
   data |-> t.srt]

\* The manifest of the results: per result its index, its url and its base
\* name, in the order of the results.
StatedManifest(results) ==
  [name |-> <<"_summary.txt">>,
   data |-> flatten([i \in 1..Len(results) |->
              (IF i > 1 THEN <<"\n", "\n">> ELSE <<>>)
                \o digitsOf(i) \o <<". ">> \o results[i].url
                \o <<"\n", "   Filename: ">>
                \o <<results[i].filename.prefix>> \o digitsOf(results[i].filename.n)])]

\* C24: the archive export over k >= 1 completed results builds an archive of
\* exactly 2k + 1 entries: the text file and the subtitle file of every
\* result and one manifest listing the results in completion order.
C24_ArchiveOfTwoFilesPerResultAndAManifest ==
  [][(downloadAllZip("built") /\ completedTranscripts # <<>>)
     => LET k == Len(completedTranscripts)
            zip == exportTask'.zip
        IN /\ exportTask'.kind = "zip"
           /\ Len(zip) = 2 * k + 1
           /\ \A i, j \in 1..Len(zip) : zip[i].name = zip[j].name => i = j
           /\ \A i \in 1..k :
                /\ \E j \in 1..Len(zip) : zip[j] = StatedTxt(completedTranscripts[i])
                /\ \E j \in 1..Len(zip) : zip[j] = StatedSrt(completedTranscripts[i])
           /\ \E j \in 1..Len(zip) : zip[j] = StatedManifest(completedTranscripts)]_vars

\* The archive of a batch of two results, one of them without speech, has
\* been handed to the browser.
C24_ArchiveOfTwoResultsDownloaded ==
  /\ Len(completedTranscripts) = 2
  /\ completedTranscripts[1].srt = <<>>
  /\ completedTranscripts[2].srt # <<>>
  /\ Len(downloads) = 1
  /\ downloads[1].name = <<"instagram_transcripts_", "now", ".zip">>
  /\ Len(downloads[1].data) = 5

\* The job of row index is Completed.
CompletedRow(index) ==
  index < Len(processingQueue) /\ processingQueue[index + 1].status = "completed"

\* C25: the text export of a Completed job hands over exactly its text named
\* {exportBaseName}.txt, the subtitle export exactly its subtitle text named
\* {exportBaseName}.srt, the empty one too; for a job that is not Completed
\* both hand over nothing.
C25_OnePayloadPerCompletedJob ==
  [][\A index \in ExportIndices :
       /\ downloadTxt(index)
          => downloads' = IF CompletedRow(index)
                          THEN <<StatedTxt(processingQueue[index + 1].result[1])>>
                          ELSE <<>>
       /\ downloadSrt(index)
          => downloads' = IF CompletedRow(index)
                          THEN <<StatedSrt(processingQueue[index + 1].result[1])>>
                          ELSE <<>>]_vars

\* The step in which downloadAllIndividual comes to its end.
IndividualEnds == exportTask.kind = "individual" /\ exportTask'.kind = "none"

\* C26: when the individual-file export ends it has handed over, for every
\* completed result in completion order, the text file and the subtitle file
\* the archive holds for it, at most one result's files per turn of its
\* timer, and the names of these files are the names of the archive's
\* transcript files.
C26_IndividualExportMatchesTheArchive ==
  [][/\ IndividualEnds
        => /\ downloads' =
                flatten([i \in 1..Len(completedTranscripts) |->
                           <<StatedTxt(completedTranscripts[i]),
                             StatedSrt(completedTranscripts[i])>>])
           /\ {downloads'[j].name : j \in 1..Len(downloads')} =
                LET zip == buildZip(completedTranscripts) IN
                {zip[j].name : j \in 1..Len(zip)} \ {<<"_summary.txt">>}
     /\ exportTask.kind = "individual" => Len(downloads') <= Len(downloads) + 2]_vars

\* A step in which the construction of the archive fails: JSZip throws while
\* the archive is built, or generateAsync rejects.
ZipFails ==
  \/ downloadAllZip("throws") /\ completedTranscripts # <<>>
  \/ zipGenerated("reject")

\* C27: a failing construction of the archive shows the export-failure
\* message and leaves the jobs, the cursor, the completed results and the
\* running flag as they were.
C27_FailedArchiveChangesNoBatchState ==
  [][ZipFails
     => /\ bulkResponse' = <<[type |-> "error",
                              message |-> [text |-> "Failed to generate ZIP file",
                                           args |-> <<>>]]>>
        /\ processingQueue' = processingQueue
        /\ currentIndex' = currentIndex
        /\ completedTranscripts' = completedTranscripts
        /\ isProcessing' = isProcessing]_vars

\* The archive failed while the batch was running with one result completed.
C27_ArchiveFailedWhileRunning ==
  /\ bulkResponse = <<[type |-> "error",
                       message |-> [text |-> "Failed to generate ZIP file",
                                    args |-> <<>>]]>>
  /\ isProcessing
  /\ Len(completedTranscripts) = 1
  /\ exportTask = NoTask

\* C34: while the current batch has a job that is Pending or Processing, the
\* running flag is set and the start button is disabled.
C34_RunningWhileJobsAreUnfinished ==
  (\E k \in Jobs : processingQueue[k].status \in {"pending", "processing"})
    => isProcessing /\ buttonDisabled

\* C35: the file names of the completed results are pairwise distinct.
C35_BaseNamesAreDistinct ==
  \A i, j \in 1..Len(completedTranscripts) :
    completedTranscripts[i].filename = completedTranscripts[j].filename => i = j

\* Two results are completed in a batch started after a clear, while a call
\* of the cleared batch is still outstanding.
C35_TwoResultsAfterARestart ==
  /\ Len(completedTranscripts) = 2
  /\ nBatches = 2
  /\ \E c \in Chains : chains[c].pc \in Awaiting /\ chains[c].gen # queueRef

\* C36: startBatch on a text without a surviving line, while no valid
\* credential is stored, reports the no-valid-URLs condition only and leaves
\* the settings prompt as it is.
C36_UrlsAreCheckedBeforeTheCredential ==
  [][\A value \in StartValues :
       (handleProcessBulk(value) /\ surviving(value) = <<>> /\ ~HasCredential)
       => /\ bulkResponse' = NoValidUrls
          /\ bulkResponse' # CredentialMissing
          /\ settingsModalDisplay' = settingsModalDisplay]_vars

\* The no-valid-URLs condition is reported, no credential is stored and the
\* settings prompt is closed.
C36_ReportedWithoutCredentialNoPrompt ==
  /\ bulkResponse = NoValidUrls
  /\ storedKey = NoKey
  /\ settingsModalDisplay = "none"
  /\ queueRef = 0

\* The failure reason stated for a rejected transcription request.
StatedReason(status, body) ==
  IF status = 401 THEN "Invalid API key. Please check your settings."
  ELSE IF status = 413 THEN "Audio file is too large. Please use a shorter video."
  ELSE IF status = 429 THEN "Rate limit exceeded. Please try again in a moment."
  ELSE IF status = 500 \/ status = 503 THEN "OpenAI service error. Please try again later."
  ELSE IF body = "message" THEN "<error.message of the service>"
  ELSE "Transcription failed"

\* C33: when the transcription request of a job is rejected, the job ends
\* Failed with the reason its status determines (401, 413, 429, 500 and 503
\* their own reasons, any other status the message of the service when the
\* body has one and the generic reason otherwise), and no result is stored.
C33_ReasonFollowsTheStatus ==
  [][\A c \in Chains, status \in ErrorStatuses, body \in ErrorBodies :
       whisperRejects(c, status, body)
       => LET job == processingQueue'[chains[c].idx] IN
          /\ job.status = "failed"
          /\ job.error = StatedReason(status, body)
          /\ job.result = Null
          /\ completedTranscripts' = completedTranscripts]_vars

\* One job failed with the message of the service and the next one with the
\* service-unavailable reason.
C33_OwnMessageThenServiceError ==
  /\ Len(processingQueue) = 2
  /\ processingQueue[1].error = "<error.message of the service>"
  /\ processingQueue[2].error = "OpenAI service error. Please try again later."
  /\ processingQueue[2].status = "failed"

\* C37: when the video of a job has been fetched while the stored credential
\* fails the format check or is absent, no request is sent to the
\* transcription service and no result is added, and the job, if its batch is
\* the current one, ends Failed with the invalid-key reason.
C37_InvalidKeySendsNoRequest ==
  [][\A c \in Chains :
       (videoReturns(c, "blob") /\ ~HasCredential)
       => /\ chains'[c].pc = "timer"
          /\ completedTranscripts' = completedTranscripts
          /\ chains[c].gen = queueRef
               => LET job == processingQueue'[chains[c].idx] IN
                  /\ job.status = "failed"
                  /\ job.error = "Invalid API key"]_vars

\* The credential was removed while the first job was under way: that job
\* failed with the invalid-key reason and the second one is being processed.
C37_FailedForTheMissingKey ==
  /\ Len(processingQueue) = 2
  /\ processingQueue[1].status = "failed"
  /\ processingQueue[1].error = "Invalid API key"
  /\ processingQueue[2].status = "processing"
  /\ storedKey = NoKey

\* The failure reasons of the resolver.
ResolverReasons ==
  {"Failed to fetch video information", "Could not get video download URL"}

\* C32: an activation requests the video only when the resolver has answered
\* with a media location and the transcription only when the video has been
\* fetched; when the resolver fails or yields no location the activation
\* makes neither request, and a job that has failed for the resolver stays
\* Failed.
C32_CallsInOrderAndNoneAfterResolverFailure ==
  /\ [](\A k \in Jobs :
          processingQueue[k].error \in ResolverReasons
            => processingQueue[k].status = "failed")
  /\ [][\A c \in Chains :
          /\ (chains'[c].pc = "video" /\ chains[c].pc # "video")
               => mediaReturns(c, "url")
          /\ (chains'[c].pc = "whisper" /\ chains[c].pc # "whisper")
               => videoReturns(c, "blob")
          /\ (mediaReturns(c, "notOk") \/ mediaReturns(c, "noUrl"))
               => chains'[c].pc = "timer"]_vars

\* C38: the spinner of the single-item transcribe flow is hidden whenever no
\* run of the flow is under way, however the last run ended.
C38_SpinnerHiddenAfterEveryRun ==
  (\A r \in Runs : transcribeRuns[r] = NoRun) => transcribeSpinnerDisplay = "none"

\* The rows of a job list as the claim has them: one row per job, in order,
\* drawn from that job's own fields.
StatedRow(number, job) ==
  [number |-> number,
   url |-> job.url,
   statusClass |-> job.status,
   statusText |-> CASE job.status = "pending" -> <<"Pending">>
                    [] job.status = "processing" -> <<"Processing...">>
                    [] job.status = "completed" -> <<"Completed">>
                    [] job.status = "failed" -> <<"Failed: ", job.error>>,
   actions |-> job.status = "completed"]
StatedRows(jobs) == [k \in DOMAIN jobs |-> StatedRow(k, jobs[k])]

\* C31: whatever a step writes to the visible list is the rows of the job
\* list alone, so rendering again from the same list writes the same rows;
\* and a call of renderQueue leaves every job, the cursor, completedResults
\* and isProcessing as they were.
C31_RenderingIsAFunctionOfTheJobList ==
  [][/\ bulkQueueHtml' # bulkQueueHtml
          => bulkQueueHtml' = StatedRows(processingQueue')
     /\ renderQueueCall
          => /\ bulkQueueHtml' = StatedRows(processingQueue)
             /\ UNCHANGED <<heap, queueRef, currentIndex, completedTranscripts,
                            isProcessing>>]_vars

\* C31 witness: the list of a later batch is on show as the rows of its jobs,
\* a finished row above the row in progress.
C31_RenderedRowsOfALaterBatch ==
  /\ nBatches >= 2
  /\ Len(processingQueue) = 2
  /\ processingQueue[1].status \in Terminal
  /\ processingQueue[2].status = "processing"
  /\ bulkQueueHtml = StatedRows(processingQueue)
  /\ bulkQueueHtml[2].statusText = <<"Processing...">>
====
